---- MODULE Spec2Model ----
(***************************************************************************)
(* Model of libs/runtime/scripts/package-test-tools.py: the test           *)
(* orchestrator that brings up the docker compose dependency stack, waits  *)
(* for LocalStack, provisions fixtures, runs the test command and tears    *)
(* the stack down.                                                         *)
(*                                                                         *)
(* One run of run_package_test_tools is one behaviour.  pc is the position *)
(* of the single Python thread; the container engine, the LocalStack log   *)
(* stream, the boto3 services, the test command and the user (Ctrl-C) are  *)
(* the environment and are chosen nondeterministically.  log is a history  *)
(* of the externally visible calls in the order they were made.            *)
(***************************************************************************)
EXTENDS Integers, Sequences, FiniteSets, TLC

VARIABLES
    pc,           \* position of the interpreter
    localdeps,    \* args.localdeps
    stack,        \* state of the docker compose stack
    initStack,    \* state of the stack when the process started
    tdSite,       \* call site of the running / last _teardown_local_deps
    exc,          \* exception in flight, or propagated out of the top level
    caught,       \* exception caught by the except clause of line 47
    exitStatus,   \* process exit status, -1 while running
    log,          \* history of calls: sequence of [op, at]
    now,          \* time.time() relative to start_time
    linesRead,    \* history of the lines read from the log stream, with times
    tailRunning,  \* the `docker logs -f` subprocess is alive
    secretsFile,  \* content of secrets.test.json, or NoFile
    queuesDir,    \* os.listdir of tests/__data/sqs/queues, or NoDir
    queueFiles,   \* queue_files still to be processed by the loop
    secretCalls,  \* SecretString of every create_secret call
    queueCalls,   \* [QueueName, Attributes] of every create_queue call
    returncode,   \* completed_process.returncode, -1 before the tests ran
    streamStalled,\* the log stream produces nothing more and stays open
    tdFound,      \* state of the stack found by each _teardown_local_deps call
    testCalls     \* environment of every execution of the test command

vars == <<pc, localdeps, stack, initStack, tdSite, exc, caught, exitStatus,
          log, now, linesRead, tailRunning, secretsFile, queuesDir,
          queueFiles, secretCalls, queueCalls, returncode, streamStalled,
          tdFound, testCalls>>

----------------------------------------------------------------------------
(* Bounds and program constants *)

\* largest number of log lines read by one readiness watch
MaxLines == 2

\* deadline_seconds passed by _run_local_deps
DeadlineSeconds == 60

\* JSON_EXT
JSON_EXT == ".json"

\* the marker compared with the stripped line, as characters
Marker == <<"R", "e", "a", "d", "y", ".">>

\* times at which a line can arrive (seconds since start_time)
TimePoints == {0, 3, DeadlineSeconds - 1, DeadlineSeconds, DeadlineSeconds + 1}

\* exit codes of the test command
ReturnCodes == {0, 101}

\* os.environ of the process: sets of <<name, value>>
Environs ==
    { { <<"FOO", "baz">>, <<"LIVE_ONLY", "z">> },
      { <<"GITHUB_ACTIONS", "true">>, <<"FOO", "baz">> },
      { <<"GITHUB_ACTIONS", "">> } }

\* dotenv_values of the two env files
DotenvValues(file) ==
    IF file = ".env.test-ci"
    THEN { <<"FOO", "ci">>, <<"CI_ONLY", "y">> }
    ELSE { <<"FOO", "bar">>, <<"FILE_ONLY", "x">> }

\* contents of the secret file: a sequence of text lines
SecretContents == { <<"{", "}">> }

\* secrets.test.json: absent, or a regular file with a content
NoFile == [exists |-> FALSE, content |-> << >>]
SecretFiles == {NoFile} \cup {[exists |-> TRUE, content |-> c] : c \in SecretContents}

\* raw lines of the log stream: sequences of bytes
LogLines ==
    { <<"R", "e", "a", "d", "y", ".", "\n">>,
      <<" ", "R", "e", "a", "d", "y", ".", " ", "\n">>,
      <<"x", " ", "R", "e", "a", "d", "y", ".", "\n">>,
      <<"\n">> }

QueueFile(name, ok, pairs) == [name |-> name, wellFormed |-> ok, pairs |-> pairs]

OrdersFile == QueueFile(<<"orders", ".json">>, TRUE, << <<"a", "1">> >>)
PaymentsFile == QueueFile(<<"payments", ".json">>, TRUE, << <<"b", "2">> >>)
BrokenFile == QueueFile(<<"broken", ".json">>, FALSE, << >>)
NotesFile == QueueFile(<<"notes", ".txt">>, TRUE, << >>)
InnerJsonFile == QueueFile(<<"v1", ".json", "-orders", ".json">>, TRUE, << <<"c", "3">> >>)

\* directory listings, in the order os.listdir returns them
Listings ==
    { << >>,
      <<NotesFile, OrdersFile>>,
      <<OrdersFile, PaymentsFile>>,
      <<OrdersFile, BrokenFile, PaymentsFile>>,
      <<InnerJsonFile>> }

\* tests/__data/sqs/queues: absent, or a directory with a listing
NoDir == [exists |-> FALSE, listing |-> << >>]
QueueDirs == {NoDir} \cup {[exists |-> TRUE, listing |-> l] : l \in Listings}

----------------------------------------------------------------------------
(* Pure helpers *)

IsSpace(c) == c \in {" ", "\n", "\t", "\r"}

RECURSIVE LStrip(_)
LStrip(s) ==
    IF s = << >> THEN s
    ELSE IF IsSpace(Head(s)) THEN LStrip(Tail(s)) ELSE s

RECURSIVE RStrip(_)
RStrip(s) ==
    IF s = << >> THEN s
    ELSE IF IsSpace(s[Len(s)]) THEN RStrip(SubSeq(s, 1, Len(s) - 1)) ELSE s

\* str.strip()
Strip(s) == RStrip(LStrip(s))

\* line_str.strip() == 'Ready.'
IsReadyLine(line) == Strip(line) = Marker

\* variant of the watch that leaves the loop without process.kill()
TailLeftRunning(running) == running

\* process.kill() and the wait of the with block: the subprocess is gone
TailAfterKill(running) == FALSE

\* variant of the deadline test with a strict comparison
DeadlineReachedStrictly(t) == t > 0 + DeadlineSeconds

\* current_time >= start_time + deadline_seconds, with start_time = 0
DeadlineReached(t) == t >= 0 + DeadlineSeconds

\* variants of the except clause that name only one of the two exceptions
CaughtOnlyNotReady(e) == e \in {"LocalstackNotReady"}

CaughtOnlyInterrupt(e) == e \in {"KeyboardInterrupt"}

\* variant of bring-up that starts the stack without clearing first
BringUpStartsDirectly == FALSE

\* _run_local_deps begins with _teardown_local_deps()
BringUpClearsFirst == TRUE

\* the except clause of run_package_test_tools
CaughtByHandler(e) == e \in {"KeyboardInterrupt", "LocalstackNotReady"}

\* variant of the except clause that tears down without looking at the flag
HandlerAlwaysTearsDown(ld) == TRUE

\* `if args.localdeps:` inside the except clause
HandlerTearsDown(ld) == ld

\* variant that leaves the teardown after the tests to the except clause
TeardownAfterTestsSkipped(ld) == FALSE

\* `if args.localdeps:` after the test command returned
TeardownAfterTests(ld) == ld

\* variant that opens the secret file without testing for it
SecretFileAssumed(f) == TRUE

\* Path(secrets_file_path).is_file()
SecretFileIsFile(f) == f.exists

\* handle.read(): the whole content
ReadSecretString(f) == f.content

\* Path(queues_path).is_dir()
QueuesPathIsDir(d) == d.exists

\* pos_json.endswith(JSON_EXT)
EndsWithJsonExt(name) == name # << >> /\ name[Len(name)] = JSON_EXT

\* the list comprehension over os.listdir
JsonFilesOf(listing) == SelectSeq(listing, LAMBDA f : EndsWithJsonExt(f.name))

\* queue_file.replace('.json', '')
QueueName(name) == SelectSeq(name, LAMBDA seg : seg # ".json")

\* variant that takes an unreadable file for an empty mapping
JsonLoadTolerant(f) == FALSE

\* json.load(handle) raises JSONDecodeError on a file that is not JSON
JsonLoadRaises(f) == ~f.wellFormed

\* json.load(handle): keys mapped to their last value
JsonLoad(f) ==
    [k \in {f.pairs[i][1] : i \in 1..Len(f.pairs)} |->
        LET idx == CHOOSE i \in 1..Len(f.pairs) :
                      /\ f.pairs[i][1] = k
                      /\ \A j \in 1..Len(f.pairs) : f.pairs[j][1] = k => j <= i
        IN f.pairs[idx][2]]

\* os.environ.get(name): None when unset
EnvironGet(env, name) ==
    IF \E p \in env : p[1] = name
    THEN (CHOOSE p \in env : p[1] = name)[2]
    ELSE "<None>"

\* '.env.test-ci' if in_ci_env else '.env.test': an empty string is falsy
TestEnvFile(env) ==
    IF EnvironGet(env, "GITHUB_ACTIONS") \notin {"<None>", ""}
    THEN ".env.test-ci"
    ELSE ".env.test"

\* the two mappings merged the other way round: {**live, **base}
MergeEnvFileWins(base, live) ==
    base \cup {p \in live : ~(\E q \in base : q[1] = p[1])}

\* {**base, **live}: the keys of the second mapping replace those of the first
MergeEnv(base, live) ==
    live \cup {p \in base : ~(\E q \in live : q[1] = p[1])}

Event(op, at) == [op |-> op, at |-> at]

\* the code is inside the try block of run_package_test_tools
InTry == pc \notin {"handler", "done"} /\ tdSite # "handler"

\* part of the run the interpreter is in
Phase ==
    IF pc \in {"td_stop", "td_rm"} THEN tdSite ELSE pc

----------------------------------------------------------------------------
(* Exception propagation *)

\* raise e from the current position, after the calls in l were made:
\* inside the try block the except clause catches what it names, everything
\* else leaves run_package_test_tools and ends the process with a traceback
Raise(e, l) ==
    /\ exc' = e
    /\ log' = Append(l, Event("raise", e))
    /\ IF InTry /\ CaughtByHandler(e)
       THEN pc' = "handler" /\ UNCHANGED exitStatus
       ELSE pc' = "done" /\ exitStatus' = 1

----------------------------------------------------------------------------
Init ==
    /\ pc = "start"
    /\ localdeps \in BOOLEAN
    /\ stack \in {"absent", "up"}
    /\ initStack = stack
    /\ tdSite = "none"
    /\ exc = "none"
    /\ caught = "none"
    /\ exitStatus = -1
    /\ log = << >>
    /\ now = 0
    /\ linesRead = << >>
    /\ tailRunning = FALSE
    /\ secretsFile \in SecretFiles
    /\ queuesDir \in QueueDirs
    /\ queueFiles = << >>
    /\ secretCalls = << >>
    /\ queueCalls = << >>
    /\ returncode = -1
    /\ streamStalled = FALSE
    /\ tdFound = << >>
    /\ testCalls = << >>

\* _run_integration_tests, lines 56-57, and the call of _teardown_local_deps
\* that opens _run_local_deps
Start ==
    /\ pc = "start"
    /\ IF localdeps
       THEN IF BringUpClearsFirst
            THEN /\ pc' = "td_stop"
                 /\ tdSite' = "bringup"
                 /\ log' = Append(log, Event("teardown", "bringup"))
                 /\ tdFound' = Append(tdFound, stack)
            ELSE /\ pc' = "up"
                 /\ UNCHANGED <<tdSite, log, tdFound>>
       ELSE /\ pc' = "test"
            /\ UNCHANGED <<tdSite, log, tdFound>>
    /\ UNCHANGED <<localdeps, stack, initStack, exc, caught, exitStatus, now,
                   linesRead, tailRunning, secretsFile, queuesDir, queueFiles,
                   secretCalls, queueCalls, returncode>>
    /\ UNCHANGED <<streamStalled, testCalls>>

\* what the history keeps of a container-engine call: an unreachable engine
\* is noted before the failure it causes
EngineNoted(engineOk) ==
    IF engineOk THEN log ELSE Append(log, Event("engine_error", tdSite))

\* exit status of `docker stop <container>`, which fails when the container
\* does not exist
ContainerStopExit(st, engineOk) == IF engineOk /\ st # "absent" THEN 0 ELSE 1

\* exit status of `docker compose -f ... stop`: 0 when the engine answers,
\* also when no container of the stack is running
ComposeStopExit(st, engineOk) == IF engineOk THEN 0 ELSE 1

\* exit status of `docker compose -f ... rm -v -f`: 0 when the engine
\* answers, also when there is no stopped container to remove
ComposeRmExit(st, engineOk) == IF engineOk THEN 0 ELSE 1

\* _teardown_local_deps: docker compose stop, check=True
TeardownStop ==
    /\ pc = "td_stop"
    /\ \E ok \in BOOLEAN :
          IF ComposeStopExit(stack, ok) = 0
          THEN /\ stack' = IF stack = "up" THEN "stopped" ELSE stack
               /\ log' = Append(log, Event("stop", tdSite))
               /\ pc' = "td_rm"
               /\ UNCHANGED <<exc, exitStatus>>
          ELSE /\ Raise("CalledProcessError",
                        Append(EngineNoted(ok), Event("stop_failed", tdSite)))
               /\ UNCHANGED stack
    /\ UNCHANGED <<localdeps, initStack, tdSite, caught, now, linesRead,
                   tailRunning, secretsFile, queuesDir, queueFiles,
                   secretCalls, queueCalls, returncode>>
    /\ UNCHANGED <<streamStalled, tdFound, testCalls>>

\* _teardown_local_deps: docker compose rm -v -f, check=True, and the return
\* to the call site
TeardownRm ==
    /\ pc = "td_rm"
    /\ \E ok \in BOOLEAN :
          IF ComposeRmExit(stack, ok) = 0
          THEN /\ stack' = IF stack = "stopped" THEN "absent" ELSE stack
               /\ log' = Append(log, Event("rm", tdSite))
               /\ UNCHANGED exc
               /\ CASE tdSite = "bringup" -> pc' = "up" /\ UNCHANGED exitStatus
                    [] tdSite = "final" -> pc' = "check_rc" /\ UNCHANGED exitStatus
                    [] tdSite = "handler" -> pc' = "done" /\ exitStatus' = 0
          ELSE /\ Raise("CalledProcessError",
                        Append(EngineNoted(ok), Event("rm_failed", tdSite)))
               /\ UNCHANGED stack
    /\ UNCHANGED <<localdeps, initStack, tdSite, caught, now, linesRead,
                   tailRunning, secretsFile, queuesDir, queueFiles,
                   secretCalls, queueCalls, returncode>>
    /\ UNCHANGED <<streamStalled, tdFound, testCalls>>

\* _run_local_deps: docker compose up -d, check=True
ComposeUp ==
    /\ pc = "up"
    /\ \E ok \in BOOLEAN :
          IF ok
          THEN /\ stack' = "up"
               /\ log' = Append(log, Event("up", "bringup"))
               /\ pc' = "wait_open"
               /\ UNCHANGED <<exc, exitStatus>>
          ELSE /\ Raise("CalledProcessError", Append(log, Event("up_failed", "bringup")))
               /\ UNCHANGED stack
    /\ UNCHANGED <<localdeps, initStack, tdSite, caught, now, linesRead,
                   tailRunning, secretsFile, queuesDir, queueFiles,
                   secretCalls, queueCalls, returncode>>
    /\ UNCHANGED <<streamStalled, tdFound, testCalls>>

\* _wait_for_localstack: start_time and the Popen of `docker logs -f`
WaitOpen ==
    /\ pc = "wait_open"
    /\ now' = 0
    /\ tailRunning' = TRUE
    /\ log' = Append(log, Event("watch", "wait"))
    /\ pc' = "wait"
    /\ UNCHANGED <<localdeps, stack, initStack, tdSite, exc, caught,
                   exitStatus, linesRead, secretsFile, queuesDir, queueFiles,
                   secretCalls, queueCalls, returncode>>
    /\ UNCHANGED <<streamStalled, tdFound, testCalls>>

\* _wait_for_localstack: one iteration of `for line in process.stdout`
WaitReadLine ==
    /\ pc = "wait"
    /\ ~streamStalled
    /\ \E line \in LogLines, t \in TimePoints :
          /\ t >= now
          /\ now' = t
          /\ linesRead' = Append(linesRead, [line |-> line, t |-> t])
          /\ IF DeadlineReached(t)
             THEN /\ tailRunning' = TailAfterKill(tailRunning)
                  /\ Raise("LocalstackNotReady", Append(log, Event("timeout", "wait")))
             ELSE IF IsReadyLine(line)
             THEN /\ tailRunning' = TailAfterKill(tailRunning)
                  /\ log' = Append(log, Event("ready", "wait"))
                  /\ pc' = "secrets"
                  /\ UNCHANGED <<exc, exitStatus>>
             ELSE /\ Len(linesRead) + 1 < MaxLines
                  /\ UNCHANGED <<tailRunning, log, pc, exc, exitStatus>>
    /\ UNCHANGED <<localdeps, stack, initStack, tdSite, caught, secretsFile,
                   queuesDir, queueFiles, secretCalls, queueCalls, returncode>>
    /\ UNCHANGED <<streamStalled, tdFound, testCalls>>

\* _wait_for_localstack: the stream ends, the for loop is exhausted, the with
\* block waits for the subprocess and the function returns
WaitEof ==
    /\ pc = "wait"
    /\ ~streamStalled
    /\ tailRunning' = FALSE
    /\ log' = Append(log, Event("eof", "wait"))
    /\ pc' = "secrets"
    /\ UNCHANGED <<localdeps, stack, initStack, tdSite, exc, caught,
                   exitStatus, now, linesRead, secretsFile, queuesDir,
                   queueFiles, secretCalls, queueCalls, returncode>>
    /\ UNCHANGED <<streamStalled, tdFound, testCalls>>

\* the container goes quiet without exiting: from here on the blocking read
\* of process.stdout gets neither a line nor the end of the stream
StreamStalls ==
    /\ pc = "wait"
    /\ ~streamStalled
    /\ streamStalled' = TRUE
    /\ UNCHANGED <<pc, localdeps, stack, initStack, tdSite, exc, caught,
                   exitStatus, log, now, linesRead, tailRunning, secretsFile,
                   queuesDir, queueFiles, secretCalls, queueCalls, returncode,
                   tdFound, testCalls>>

\* the wall clock goes on while the interpreter is blocked in the read of
\* a stalled stream; time.time() is only called once a line has arrived
ClockAdvances ==
    /\ pc = "wait"
    /\ streamStalled
    /\ \E t \in TimePoints : t > now /\ now' = t
    /\ UNCHANGED <<pc, localdeps, stack, initStack, tdSite, exc, caught,
                   exitStatus, log, linesRead, tailRunning, secretsFile,
                   queuesDir, queueFiles, secretCalls, queueCalls, returncode,
                   streamStalled, tdFound, testCalls>>

\* _populate_secrets
PopulateSecrets ==
    /\ pc = "secrets"
    /\ IF SecretFileIsFile(secretsFile)
       THEN /\ secretCalls' = Append(secretCalls, ReadSecretString(secretsFile))
            /\ \E ok \in BOOLEAN :
                  IF ok
                  THEN /\ log' = Append(log, Event("create_secret", "secrets"))
                       /\ pc' = "queues"
                       /\ UNCHANGED <<exc, exitStatus>>
                  ELSE Raise("ClientError", Append(log, Event("create_secret", "secrets")))
       ELSE /\ log' = Append(log, Event("no_secrets_file", "secrets"))
            /\ pc' = "queues"
            /\ UNCHANGED <<secretCalls, exc, exitStatus>>
    /\ UNCHANGED <<localdeps, stack, initStack, tdSite, caught, now,
                   linesRead, tailRunning, secretsFile, queuesDir, queueFiles,
                   queueCalls, returncode>>
    /\ UNCHANGED <<streamStalled, tdFound, testCalls>>

\* _generate_sqs_queues, lines 165-179: the is_dir test only prints, then
\* os.listdir runs on the path whether or not it exists
GenerateSqsQueues ==
    /\ pc = "queues"
    /\ IF QueuesPathIsDir(queuesDir)
       THEN /\ queueFiles' = JsonFilesOf(queuesDir.listing)
            /\ log' = Append(log, Event("listdir", "queues"))
            /\ pc' = "queues_loop"
            /\ UNCHANGED <<exc, exitStatus>>
       ELSE /\ Raise("FileNotFoundError", Append(log, Event("no_queues_dir", "queues")))
            /\ UNCHANGED queueFiles
    /\ UNCHANGED <<localdeps, stack, initStack, tdSite, caught, now,
                   linesRead, tailRunning, secretsFile, queuesDir,
                   secretCalls, queueCalls, returncode>>
    /\ UNCHANGED <<streamStalled, tdFound, testCalls>>

\* _generate_sqs_queues, lines 180-188: one iteration of the loop
CreateQueue ==
    /\ pc = "queues_loop"
    /\ queueFiles # << >>
    /\ LET f == Head(queueFiles) IN
          IF ~JsonLoadRaises(f)
          THEN /\ queueCalls' = Append(queueCalls,
                     [QueueName |-> QueueName(f.name), Attributes |-> JsonLoad(f)])
               /\ \E ok \in BOOLEAN :
                     IF ok
                     THEN /\ log' = Append(log, Event("create_queue", "queues"))
                          /\ queueFiles' = Tail(queueFiles)
                          /\ UNCHANGED <<pc, exc, exitStatus>>
                     ELSE /\ Raise("ClientError", Append(log, Event("create_queue", "queues")))
                          /\ UNCHANGED queueFiles
          ELSE /\ Raise("JSONDecodeError", log)
               /\ UNCHANGED <<queueFiles, queueCalls>>
    /\ UNCHANGED <<localdeps, stack, initStack, tdSite, caught, now,
                   linesRead, tailRunning, secretsFile, queuesDir,
                   secretCalls, returncode>>
    /\ UNCHANGED <<streamStalled, tdFound, testCalls>>

\* _generate_sqs_queues: the loop is exhausted; _run_local_deps returns
QueuesDone ==
    /\ pc = "queues_loop"
    /\ queueFiles = << >>
    /\ pc' = "test"
    /\ UNCHANGED <<localdeps, stack, initStack, tdSite, exc, caught,
                   exitStatus, log, now, linesRead, tailRunning, secretsFile,
                   queuesDir, queueFiles, secretCalls, queueCalls, returncode>>
    /\ UNCHANGED <<streamStalled, tdFound, testCalls>>

\* _run_integration_tests, lines 58-74: subprocess.run(..., check=False)
RunTests ==
    /\ pc = "test"
    /\ \E rc \in ReturnCodes : returncode' = rc
    /\ \E environ \in Environs :
          LET file == TestEnvFile(environ) IN
          testCalls' = Append(testCalls,
              [environ |-> environ, file |-> file,
               env |-> MergeEnv(DotenvValues(file), environ)])
    /\ log' = Append(log, Event("test", "test"))
    /\ pc' = "after_test"
    /\ UNCHANGED <<localdeps, stack, initStack, tdSite, exc, caught,
                   exitStatus, now, linesRead, tailRunning, secretsFile,
                   queuesDir, queueFiles, secretCalls, queueCalls>>
    /\ UNCHANGED <<streamStalled, tdFound>>

\* _run_integration_tests, lines 75-76
AfterTests ==
    /\ pc = "after_test"
    /\ IF TeardownAfterTests(localdeps)
       THEN /\ pc' = "td_stop"
            /\ tdSite' = "final"
            /\ log' = Append(log, Event("teardown", "final"))
            /\ tdFound' = Append(tdFound, stack)
       ELSE /\ pc' = "check_rc"
            /\ UNCHANGED <<tdSite, log, tdFound>>
    /\ UNCHANGED <<localdeps, stack, initStack, exc, caught, exitStatus, now,
                   linesRead, tailRunning, secretsFile, queuesDir, queueFiles,
                   secretCalls, queueCalls, returncode>>
    /\ UNCHANGED <<streamStalled, testCalls>>

\* _run_integration_tests, lines 77-80, and the normal return of the script
CheckReturnCode ==
    /\ pc = "check_rc"
    /\ IF returncode # 0
       THEN Raise("TestRunnerFailed", log)
       ELSE /\ pc' = "done"
            /\ exitStatus' = 0
            /\ UNCHANGED <<exc, log>>
    /\ UNCHANGED <<localdeps, stack, initStack, tdSite, caught, now,
                   linesRead, tailRunning, secretsFile, queuesDir, queueFiles,
                   secretCalls, queueCalls, returncode>>
    /\ UNCHANGED <<streamStalled, tdFound, testCalls>>

\* run_package_test_tools, lines 47-49: the except clause
Handler ==
    /\ pc = "handler"
    /\ caught' = exc
    /\ exc' = "none"
    /\ IF HandlerTearsDown(localdeps)
       THEN /\ pc' = "td_stop"
            /\ tdSite' = "handler"
            /\ log' = Append(log, Event("teardown", "handler"))
            /\ tdFound' = Append(tdFound, stack)
            /\ UNCHANGED exitStatus
       ELSE /\ pc' = "done"
            /\ exitStatus' = 0
            /\ UNCHANGED <<tdSite, log, tdFound>>
    /\ UNCHANGED <<localdeps, stack, initStack, now, linesRead, tailRunning,
                   secretsFile, queuesDir, queueFiles, secretCalls,
                   queueCalls, returncode>>
    /\ UNCHANGED <<streamStalled, testCalls>>

\* positions at which the interpreter is blocked in a subprocess or a
\* service call
Blocking == {"td_stop", "td_rm", "up", "wait", "secrets", "queues_loop", "test"}

\* Ctrl-C while the interpreter is blocked: KeyboardInterrupt is raised at
\* the current position.  An interrupted watch leaves the with block without
\* process.kill(); Popen.__exit__ gives the child a moment and stops waiting
Interrupt ==
    /\ pc \in Blocking
    /\ Raise("KeyboardInterrupt", Append(log, Event("interrupt", Phase)))
    /\ tailRunning' \in (IF pc = "wait" THEN BOOLEAN ELSE {tailRunning})
    /\ UNCHANGED <<localdeps, stack, initStack, tdSite, caught, now,
                   linesRead, secretsFile, queuesDir, queueFiles,
                   secretCalls, queueCalls, returncode>>
    /\ UNCHANGED <<streamStalled, tdFound, testCalls>>

Next ==
    \/ Start
    \/ TeardownStop
    \/ TeardownRm
    \/ ComposeUp
    \/ WaitOpen
    \/ WaitReadLine
    \/ WaitEof
    \/ StreamStalls
    \/ ClockAdvances
    \/ PopulateSecrets
    \/ GenerateSqsQueues
    \/ CreateQueue
    \/ QueuesDone
    \/ RunTests
    \/ AfterTests
    \/ CheckReturnCode
    \/ Handler
    \/ Interrupt

Spec == Init /\ [][Next]_vars

\* the steps the interpreter and its subprocesses take on their own; a user
\* interrupt and a stalling container are not bound to happen
ProgramNext ==
    \/ Start
    \/ TeardownStop
    \/ TeardownRm
    \/ ComposeUp
    \/ WaitOpen
    \/ WaitReadLine
    \/ WaitEof
    \/ ClockAdvances
    \/ PopulateSecrets
    \/ GenerateSqsQueues
    \/ CreateQueue
    \/ QueuesDone
    \/ RunTests
    \/ AfterTests
    \/ CheckReturnCode
    \/ Handler

\* one run with bring-up requested and one fixture of each kind
LiveInit ==
    /\ Init
    /\ localdeps
    /\ stack = "absent"
    /\ secretsFile = [exists |-> TRUE, content |-> <<"{", "}">>]
    /\ queuesDir = [exists |-> TRUE, listing |-> <<OrdersFile, PaymentsFile>>]

LiveSpec == LiveInit /\ [][Next]_vars /\ WF_vars(ProgramNext)

----------------------------------------------------------------------------
TypeOK ==
    /\ pc \in {"start", "td_stop", "td_rm", "up", "wait_open", "wait",
               "secrets", "queues", "queues_loop", "test", "after_test",
               "check_rc", "handler", "done"}
    /\ localdeps \in BOOLEAN
    /\ stack \in {"absent", "up", "stopped"}
    /\ tdSite \in {"none", "bringup", "final", "handler"}
    /\ exitStatus \in {-1, 0, 1}
    /\ (pc = "done") = (exitStatus # -1)
    /\ returncode \in ReturnCodes \cup {-1}

----------------------------------------------------------------------------
(* Reading the history *)

Positions(op) == {i \in 1..Len(log) : log[i].op = op}

HasOp(op) == Positions(op) # {}

Raised(e) == \E i \in Positions("raise") : log[i].at = e

\* invocations of _teardown_local_deps other than the one that opens bring-up
TeardownsAfterBringUp == {i \in Positions("teardown") : log[i].at # "bringup"}

\* a teardown that ran both of its steps after position i of the history
CompletedTeardownAfter(i) ==
    \E j, k \in 1..Len(log) :
        /\ i < j /\ j < k
        /\ log[j].op = "stop"
        /\ log[k].op = "rm"
        /\ log[k].at = log[j].at

Finished == pc = "done"

----------------------------------------------------------------------------
(* C1: with bring-up requested, every run that ends by success, readiness   *)
(* timeout, test-runner failure, a failed docker compose call or a user     *)
(* interrupt invokes teardown exactly once, and on the successful path that *)
(* invocation comes after the test execution.  The teardown with which      *)
(* bring-up clears a previous instance is not counted once the stack has    *)
(* been started after it; in a run that never started the stack either      *)
(* count may be the one.                                                    *)
C1_Endings ==
    {"LocalstackNotReady", "TestRunnerFailed", "CalledProcessError", "KeyboardInterrupt"}

C1_TeardownExactlyOnce ==
    (Finished /\ localdeps /\ \A i \in Positions("raise") : log[i].at \in C1_Endings) =>
        /\ IF HasOp("up")
           THEN Cardinality(TeardownsAfterBringUp) = 1
           ELSE \/ Cardinality(Positions("teardown")) = 1
                \/ Cardinality(TeardownsAfterBringUp) = 1
        /\ (exitStatus = 0 /\ caught = "none") =>
              \E i \in Positions("test"), j \in TeardownsAfterBringUp : i < j

(* C2: with bring-up requested, an interrupt that arrives during stack      *)
(* start, the readiness watch, provisioning or test execution (or during a  *)
(* teardown made inside the try block) is followed by an invocation of      *)
(* teardown before the process finishes.                                    *)
InterruptPhases == {"bringup", "up", "wait", "secrets", "queues_loop", "test", "final"}

C2_TeardownAfterInterrupt ==
    (Finished /\ localdeps) =>
        \A i \in Positions("interrupt") :
            log[i].at \in InterruptPhases =>
                \E j \in Positions("teardown") : i < j

C2_Witness ==
    /\ Finished /\ localdeps
    /\ \E i \in Positions("interrupt") :
          /\ log[i].at = "test"
          /\ CompletedTeardownAfter(i)

(* C3: with bring-up requested, once the stack has been started every way   *)
(* out of the run, the exceptional ones included, passes through a          *)
(* completed teardown: the run never finishes with the stack still up.      *)
C3_StackReleasedOnEveryExit ==
    (Finished /\ localdeps) =>
        \A i \in Positions("up") :
            /\ CompletedTeardownAfter(i)
            /\ stack # "up"

(* C4: when the readiness watch times out, teardown is invoked and the run  *)
(* makes no secret-store call, no queue-creation call and never executes    *)
(* the test command.                                                        *)
C4_TimeoutTearsDownWithoutProvisioning ==
    \A i \in Positions("timeout") :
        /\ secretCalls = << >>
        /\ queueCalls = << >>
        /\ ~HasOp("test")
        /\ returncode = -1
        /\ Finished => \E j \in Positions("teardown") : i < j

C4_Witness ==
    /\ Finished
    /\ \E i \in Positions("timeout") : CompletedTeardownAfter(i)

(* C5: the process exits with status 0 only on success: a readiness         *)
(* timeout, a failed test run, a failed container-engine call and a         *)
(* malformed fixture each end the run with a non-zero status.               *)
FatalErrors ==
    {"LocalstackNotReady", "TestRunnerFailed", "CalledProcessError",
     "ClientError", "JSONDecodeError"}

C5_ZeroExitOnlyOnSuccess ==
    (Finished /\ exitStatus = 0) => \A e \in FatalErrors : ~Raised(e)

(* C6: with bring-up requested, the return of the test command (any exit    *)
(* code) is followed at once by teardown; TestRunnerFailed is raised only   *)
(* after that teardown has completed, and running the test command itself   *)
(* raises nothing.                                                          *)
C6_TeardownBeforeTestFailure ==
    /\ pc = "after_test" => (exc = "none" /\ returncode \in ReturnCodes)
    /\ localdeps =>
          /\ \A i \in Positions("test") :
                i < Len(log) => log[i + 1] = Event("teardown", "final")
          /\ pc = "check_rc" =>
                \E i \in Positions("test") : CompletedTeardownAfter(i)
          /\ Raised("TestRunnerFailed") =>
                \E i \in Positions("test"), k \in Positions("raise") :
                    /\ log[k].at = "TestRunnerFailed"
                    /\ log[k - 1] = Event("rm", "final")
                    /\ log[k - 2] = Event("stop", "final")
                    /\ i < k - 2

C6_Witness ==
    /\ Finished /\ localdeps
    /\ returncode = 101
    /\ exc = "TestRunnerFailed"
    /\ stack = "absent"

(* C7: without --localdeps the run only executes the test command: no       *)
(* bring-up, readiness watch, provisioning or teardown happens on any path, *)
(* and the dependency stack is left as it was.                              *)
C7_NoLocalDepsOnlyRunsTests ==
    ~localdeps =>
        /\ \A i \in 1..Len(log) : log[i].op \in {"test", "interrupt", "raise"}
        /\ stack = initStack
        /\ tdSite = "none"
        /\ ~tailRunning
        /\ linesRead = << >>
        /\ secretCalls = << >>
        /\ queueCalls = << >>

C7_Witness ==
    /\ ~localdeps /\ Finished
    /\ caught = "KeyboardInterrupt"
    /\ initStack = "up"

(* C8: with an absent queue-definition directory the queue step makes no    *)
(* queue-creation call and raises no error; the run goes on to the tests.   *)
C8_AbsentQueueDirSkipped ==
    ~queuesDir.exists =>
        /\ queueCalls = << >>
        /\ ~Raised("FileNotFoundError")
        /\ \A i \in Positions("no_queues_dir") :
              i < Len(log) => log[i + 1].op \in {"test", "interrupt"}

(* C9: with an absent secret file the secret step makes no create_secret    *)
(* call and raises nothing, and the queue step runs next; with a present    *)
(* file exactly one create_secret call is made, with the whole content.     *)
C9_SecretStepToleratesAbsence ==
    /\ Len(secretCalls) <= 1
    /\ ~secretsFile.exists =>
          /\ secretCalls = << >>
          /\ ~HasOp("create_secret")
          /\ \A i \in Positions("no_secrets_file") :
                IF i = Len(log)
                THEN pc = "queues" /\ exc = "none"
                ELSE log[i + 1].op \in {"listdir", "no_queues_dir"}
    /\ (secretsFile.exists /\ (pc = "queues" \/ HasOp("listdir") \/ HasOp("no_queues_dir"))) =>
          secretCalls = <<secretsFile.content>>
    /\ HasOp("create_secret") => secretCalls = <<secretsFile.content>>

C9_Witness ==
    /\ ~secretsFile.exists
    /\ HasOp("no_secrets_file")
    /\ HasOp("create_queue")
    /\ pc = "test"

(* C10: the readiness watch returns normally, letting provisioning start,   *)
(* only if a line equal to the marker after trimming was read before the    *)
(* deadline; a stream without such a line never yields Ready.               *)
MarkerReadInTime ==
    \E i \in 1..Len(linesRead) :
        /\ Strip(linesRead[i].line) = Marker
        /\ linesRead[i].t < DeadlineSeconds

C10_ReadyOnlyOnMarker ==
    pc = "secrets" => MarkerReadInTime

(* C11: the readiness watch always resolves: whatever the log stream does,  *)
(* lines at any times or no further line at all, with the clock advancing,  *)
(* the watch is eventually left.                                            *)
C11_WatchResolves == (pc = "wait") ~> (pc # "wait")

(* C12: teardown is idempotent: a teardown invoked while the stack is       *)
(* absent, at any of its call sites, raises no error (the container engine  *)
(* answering) and leaves the stack absent.                                  *)
TeardownOf(i) == Cardinality({j \in Positions("teardown") : j <= i})

Names(env) == {p[1] : p \in env}

C13_LiveEnvironmentWins ==
    \A n \in 1..Len(testCalls) :
        LET c == testCalls[n]
            base == DotenvValues(c.file)
        IN  /\ \A p \in c.environ : p \in c.env
            /\ \A p \in base : p[1] \notin Names(c.environ) => p \in c.env
            /\ \A p \in base : p[1] \in Names(c.environ) /\ p \notin c.environ => p \notin c.env
            /\ \A p \in c.env : p \in c.environ \/ p \in base
            /\ Cardinality(Names(c.env)) = Cardinality(c.env)

C13_Witness ==
    /\ Len(testCalls) = 1
    /\ <<"FOO", "baz">> \in testCalls[1].environ
    /\ <<"FOO", "bar">> \in DotenvValues(testCalls[1].file)
    /\ <<"FOO", "baz">> \in testCalls[1].env
    /\ <<"FILE_ONLY", "x">> \in testCalls[1].env
    /\ <<"LIVE_ONLY", "z">> \in testCalls[1].env

(* C14: for an existing queue directory, one create_queue call is made per  *)
(* file whose name ends in '.json' and none for another file; the queue     *)
(* name is the file name without its trailing '.json', the rest unchanged,  *)
(* and the attributes are the file's parsed mapping.                        *)
WithoutTrailingExt(name) == SubSeq(name, 1, Len(name) - 1)

ExpectedQueueCalls ==
    LET files == SelectSeq(queuesDir.listing,
                           LAMBDA f : f.name[Len(f.name)] = ".json")
    IN  [n \in 1..Len(files) |->
            [QueueName |-> WithoutTrailingExt(files[n].name),
             Attributes |-> JsonLoad(files[n])]]

C14_OneQueuePerJsonFile ==
    /\ Len(queueCalls) <= Len(ExpectedQueueCalls)
    /\ \A n \in 1..Len(queueCalls) : queueCalls[n] = ExpectedQueueCalls[n]
    /\ (localdeps /\ pc = "test") => queueCalls = ExpectedQueueCalls

(* C15: a present fixture that fails to parse or to be submitted is fatal   *)
(* for the run: the failure ends the run at once with a non-zero status, no *)
(* call is repeated, no later queue fixture is provisioned and the test     *)
(* command is not executed.                                                 *)
FixtureErrors == {"ClientError", "JSONDecodeError"}

JsonFilesListed ==
    SelectSeq(queuesDir.listing, LAMBDA f : f.name[Len(f.name)] = ".json")

C15_FixtureFailureIsFatal ==
    /\ Len(secretCalls) <= 1
    /\ \A m, n \in 1..Len(queueCalls) :
          m # n => queueCalls[m].QueueName # queueCalls[n].QueueName
    /\ \A i \in Positions("raise") :
          log[i].at \in FixtureErrors =>
              /\ i = Len(log)
              /\ Finished /\ exitStatus = 1 /\ exc = log[i].at
              /\ ~HasOp("test") /\ testCalls = << >> /\ returncode = -1
    /\ \A n \in 1..Len(JsonFilesListed) :
          ~JsonFilesListed[n].wellFormed =>
              /\ Len(queueCalls) < n
              /\ localdeps => ~HasOp("test")

C15_Witness ==
    /\ Finished
    /\ Raised("JSONDecodeError")
    /\ Len(queueCalls) = 1
    /\ Len(JsonFilesListed) = 3
    /\ secretCalls # << >>

(* C16: when the watch ends on the marker or on the deadline (or because    *)
(* the stream ended), the log-tailing subprocess is gone before control     *)
(* returns: no later state has it running.                                  *)
C16_TailKilledWhenWatchEnds ==
    (HasOp("ready") \/ HasOp("timeout") \/ HasOp("eof")) => ~tailRunning

C16_Witness ==
    /\ HasOp("timeout")
    /\ ~tailRunning
    /\ Finished

(* C17: an interrupt does not abort a teardown that has started: after a    *)
(* user interrupt during the stop or the remove step of a teardown, at any  *)
(* call site, the steps of a teardown are still completed before the        *)
(* process finishes (the container engine answering every call).            *)
TeardownSites == {"bringup", "final", "handler"}

C17_InterruptDoesNotAbortTeardown ==
    (Finished /\ ~Raised("CalledProcessError") /\ Cardinality(Positions("interrupt")) = 1) =>
        \A i \in Positions("interrupt") :
            log[i].at \in TeardownSites =>
                \E k \in Positions("rm") : i < k

(* C18: bring-up clears any previous instance first: stop and then remove   *)
(* complete before the detached start is issued, the start is issued at     *)
(* most once, and a container-engine failure of the start or of the         *)
(* clearing teardown propagates, with no readiness wait, provisioning or    *)
(* test execution after it.                                                 *)
StartsIssued == Positions("up") \cup Positions("up_failed")

BringUpEngineFailure ==
    \/ HasOp("up_failed")
    \/ \E i \in Positions("stop_failed") \cup Positions("rm_failed") : log[i].at = "bringup"

C18_BringUpClearsThenStartsOnce ==
    /\ Cardinality(StartsIssued) <= 1
    /\ \A i \in StartsIssued :
          /\ i > 3
          /\ log[i - 3] = Event("teardown", "bringup")
          /\ log[i - 2] = Event("stop", "bringup")
          /\ log[i - 1] = Event("rm", "bringup")
    /\ pc = "up" => (Len(log) = 3 /\ log[3] = Event("rm", "bringup") /\ stack = "absent")
    /\ BringUpEngineFailure =>
          /\ Finished /\ exitStatus = 1 /\ exc = "CalledProcessError"
          /\ ~HasOp("watch") /\ linesRead = << >>
          /\ secretCalls = << >> /\ queueCalls = << >>
          /\ ~HasOp("test") /\ testCalls = << >>

C18_Witness ==
    /\ Finished
    /\ HasOp("up_failed")
    /\ initStack = "up"

(* C19: with bring-up requested the steps occur in one order without        *)
(* overlap: stack start, readiness Ready, secrets, queues, test execution,  *)
(* teardown; no queue is created before the secret step has finished and    *)
(* the test command is not started before the watch has signalled Ready     *)
(* and both provisioning steps have finished.                               *)
StepRank(e) ==
    CASE e.op = "up" -> 1
      [] e.op \in {"watch", "ready"} -> 2
      [] e.op \in {"create_secret", "no_secrets_file"} -> 3
      [] e.op \in {"listdir", "create_queue", "no_queues_dir"} -> 4
      [] e.op = "test" -> 5
      [] e.op = "teardown" /\ e.at = "final" -> 6
      [] OTHER -> 0

C19_StepsInOrder ==
    localdeps =>
        /\ \A i, j \in 1..Len(log) :
              (i < j /\ StepRank(log[i]) > 0 /\ StepRank(log[j]) > 0) =>
                  StepRank(log[i]) <= StepRank(log[j])
        /\ \A i \in Positions("create_queue") :
              \E j \in 1..(i - 1) : StepRank(log[j]) = 3
        /\ \A i \in Positions("test") :
              /\ \E j \in 1..(i - 1) : log[j].op = "up"
              /\ \E j \in 1..(i - 1) : log[j].op = "ready"
              /\ MarkerReadInTime
              /\ \E j \in 1..(i - 1) : StepRank(log[j]) = 3
              /\ \E j \in 1..(i - 1) : log[j].op = "listdir"
              /\ queueFiles = << >>

(* C20: the deadline is looked at on every line before the line is compared *)
(* with the marker: a line read at or after the deadline gives TimedOut     *)
(* even when it is the marker, and a marker line read before the deadline   *)
(* gives Ready; any other line read before the deadline gives no outcome.   *)
C20_DeadlineBeforeMarker ==
    \A i \in 1..Len(linesRead) :
        LET r == linesRead[i] IN
        /\ r.t >= DeadlineSeconds =>
              /\ i = Len(linesRead)
              /\ HasOp("timeout") /\ Raised("LocalstackNotReady")
              /\ ~HasOp("ready") /\ ~HasOp("eof")
              /\ pc \in {"handler", "td_stop", "td_rm", "done"}
        /\ (r.t < DeadlineSeconds /\ Strip(r.line) = Marker) =>
              /\ i = Len(linesRead)
              /\ HasOp("ready")
              /\ ~HasOp("timeout") /\ ~Raised("LocalstackNotReady")
        /\ (r.t < DeadlineSeconds /\ Strip(r.line) # Marker /\ i = Len(linesRead)) =>
              (~HasOp("ready") /\ ~HasOp("timeout"))

C20_Witness ==
    /\ Len(linesRead) = 2
    /\ linesRead[2] = [line |-> <<"R", "e", "a", "d", "y", ".", "\n">>, t |-> DeadlineSeconds]
    /\ HasOp("timeout")
    /\ Finished

====
